---- MODULE Spec2Model ----
(***************************************************************************)
(* The project catalog of the portfolio site (data/projectsData.ts): the   *)
(* Project record shape, the projectsData list, its default export, and    *)
(* the page that renders the list as cards.                                *)
(*                                                                         *)
(* A record is a function from the names of the fields it defines to       *)
(* strings: an optional field that is absent is not in the DOMAIN.         *)
(***************************************************************************)
EXTENDS Integers, Sequences, FiniteSets, TLC

VARIABLES source,   \* the object literals of the list as authored in the module
          build,    \* "pending" | "ok" | "failed": the type check of the module
          catalog,  \* the array projectsData of the running site (<<>> before the build)
          pc,       \* per page render: "idle" | "rendering" | "done"
          view,     \* per page render: the list its import returned
          cards     \* per page render: the cards rendered so far, in output order

vars == <<source, build, catalog, pc, view, cards>>

\* ------------------------------------------------------------------ bounds

\* Number of page renders that read the catalog.
NumConsumers == 3
\* Longest authored list of the authoring specification.
MaxRecords == 2

Consumers == 1..NumConsumers

\* ------------------------------------------------------- interface Project

RequiredFields == {"title", "description"}
OptionalFields == {"href", "imgSrc"}
Fields == RequiredFields \cup OptionalFields

Has(rec, f) == f \in DOMAIN rec

\* Reading a property: an absent property reads as undefined.
undefined == <<>>
Get(rec, f) == IF Has(rec, f) THEN rec[f] ELSE undefined

\* Mutant: description declared optional (description?: string).
ProjectDescriptionOptional(lit) ==
    /\ {"title"} \subseteq DOMAIN lit
    /\ DOMAIN lit \subseteq Fields

\* An object literal is assignable to Project: the required properties are
\* there and no property is outside the interface (every value of the model is
\* a string).
Project(lit) ==
    /\ RequiredFields \subseteq DOMAIN lit
    /\ DOMAIN lit \subseteq Fields

\* const projectsData: Project[] = [...] type-checks.
WellTyped(lits) == \A i \in DOMAIN lits : Project(lits[i])

\* --------------------------------------------------------- projectsData

EngausaAcademy ==
    [title |-> "Engausa Academy",
     description |-> "Engausa Academy is a multilingual e-learning platform (mobile & web) I single handedly built from scratch in 2022, for an Engausa Global Tech Hub. An Educational institution that offers skills development courses in areas such as Solar Energy System Installation, Electric Fencing, CCTV Camera Installation & Maintenance, Electric Wiring, Graphic Design, Animation and more. I also still maintain this project to this date.",
     imgSrc |-> "/static/images/engausa-academy.jpeg",
     href |-> "https://www.engausaacademy.com"]

SultanFilmFactory ==
    [title |-> "Sultan Film Factory",
     description |-> "Sultan Film Factory is a movie streaming app I built for an entertainment company that is based in Nigeria, and they needed a way to bring their films to a larger audience worldwide.",
     imgSrc |-> "/static/images/sultan.jpg",
     href |-> "https://play.google.com/store/apps/details?id=com.sultanfilmfactory.mobile"]

DrfLogto ==
    [title |-> "Drf-Logto",
     description |-> "Open Source django app for integrating Logto Authentication with Django Rest Framework. Has support for JWT based authentication, support for Session auth coming soon. Currently under development, so use with caution.",
     imgSrc |-> "/static/images/logto.jpg",
     href |-> "https://github.com/housain-maina/drf-logto"]

\* Drops property f of a record.
Without(rec, f) == [g \in DOMAIN rec \ {f} |-> rec[g]]

\* Mutants of the list: a plausible authoring slip each.
projectsDataEmptyDescription ==
    <<EngausaAcademy, [SultanFilmFactory EXCEPT !.description = ""], DrfLogto>>
projectsDataSwapped == <<SultanFilmFactory, EngausaAcademy, DrfLogto>>
projectsDataDuplicateTitle ==
    <<EngausaAcademy, SultanFilmFactory, [DrfLogto EXCEPT !.title = "Engausa Academy"]>>
projectsDataRelativeImage ==
    <<EngausaAcademy, SultanFilmFactory, [DrfLogto EXCEPT !.imgSrc = "static/images/logto.jpg"]>>
projectsDataNoHref ==
    <<EngausaAcademy, SultanFilmFactory, Without(DrfLogto, "href")>>

projectsData == <<EngausaAcademy, SultanFilmFactory, DrfLogto>>

\* ------------------------------------------------------ authored inputs

\* The values of the example record of the testable properties.
DemoValue ==
    [title |-> "Demo",
     description |-> "A demo project.",
     href |-> "https://example.com",
     imgSrc |-> "/static/images/demo.png"]

\* An object literal defining exactly the properties S.
Literal(S) == [f \in S |-> DemoValue[f]]
Literals == {Literal(S) : S \in SUBSET Fields}

\* Every list of at most MaxRecords object literals.
AuthoredCatalogs == UNION {[1..n -> Literals] : n \in 0..MaxRecords}

\* ------------------------------------------------------------ rendering

\* Mutant: the card is always wrapped in a hyperlink.
CardAlwaysLinked(rec) ==
    [title |-> Get(rec, "title"),
     description |-> Get(rec, "description"),
     link |-> [kind |-> "a", target |-> IF Has(rec, "href") THEN rec.href ELSE "#"],
     image |-> IF Has(rec, "imgSrc")
               THEN [kind |-> "img", src |-> rec.imgSrc]
               ELSE [kind |-> "placeholder"]]

\* Mutant: the placeholder replaces every image.
CardAlwaysPlaceholder(rec) ==
    [title |-> Get(rec, "title"),
     description |-> Get(rec, "description"),
     link |-> IF Has(rec, "href")
              THEN [kind |-> "a", target |-> rec.href]
              ELSE [kind |-> "plain"],
     image |-> [kind |-> "placeholder"]]

\* The card of one record: its title and description, its image or the
\* placeholder, wrapped in a hyperlink when the record has an href.
Card(rec) ==
    [title |-> Get(rec, "title"),
     description |-> Get(rec, "description"),
     link |-> IF Has(rec, "href")
              THEN [kind |-> "a", target |-> rec.href]
              ELSE [kind |-> "plain"],
     image |-> IF Has(rec, "imgSrc")
               THEN [kind |-> "img", src |-> rec.imgSrc]
               ELSE [kind |-> "placeholder"]]

Reverse(s) == [i \in 1..Len(s) |-> s[Len(s) + 1 - i]]

\* ------------------------------------------------------------- actions

\* The module is type-checked and evaluated: the array exists only when the
\* literals are assignable to Project[].
Build ==
    /\ build = "pending"
    /\ build' = IF WellTyped(source) THEN "ok" ELSE "failed"
    /\ catalog' = IF WellTyped(source) THEN source ELSE <<>>
    /\ UNCHANGED <<source, pc, view, cards>>

\* Mutant: the export hands out projectsData.reverse(), which reverses the
\* array in place.
getProjectsReversing(c) ==
    /\ build = "ok"
    /\ pc[c] = "idle"
    /\ catalog' = Reverse(catalog)
    /\ view' = [view EXCEPT ![c] = Reverse(catalog)]
    /\ pc' = [pc EXCEPT ![c] = "rendering"]
    /\ UNCHANGED <<source, build, cards>>

\* export default projectsData: the importing page gets the list.
getProjects(c) ==
    /\ build = "ok"
    /\ pc[c] = "idle"
    /\ view' = [view EXCEPT ![c] = catalog]
    /\ pc' = [pc EXCEPT ![c] = "rendering"]
    /\ UNCHANGED <<source, build, catalog, cards>>

\* One step of the page's iteration over the list: the next record's card is
\* appended to the output.
RenderCard(c) ==
    /\ pc[c] = "rendering"
    /\ Len(cards[c]) < Len(view[c])
    /\ cards' = [cards EXCEPT ![c] = Append(@, Card(view[c][Len(cards[c]) + 1]))]
    /\ UNCHANGED <<source, build, catalog, pc, view>>

\* The iteration ends after the last record.
FinishRender(c) ==
    /\ pc[c] = "rendering"
    /\ Len(cards[c]) = Len(view[c])
    /\ pc' = [pc EXCEPT ![c] = "done"]
    /\ UNCHANGED <<source, build, catalog, view, cards>>

Next ==
    \/ Build
    \/ \E c \in Consumers : getProjects(c)
    \/ \E c \in Consumers : RenderCard(c)
    \/ \E c \in Consumers : FinishRender(c)

InitConsumers ==
    /\ build = "pending"
    /\ catalog = <<>>
    /\ pc = [c \in Consumers |-> "idle"]
    /\ view = [c \in Consumers |-> <<>>]
    /\ cards = [c \in Consumers |-> <<>>]

\* The shipped site: the module is the one of the repository.
Init == source = projectsData /\ InitConsumers

Spec == Init /\ [][Next]_vars

\* Authoring: the module holds any list of object literals.
InitAuthored == source \in AuthoredCatalogs /\ InitConsumers

SpecAuthored == InitAuthored /\ [][Next]_vars

\* ------------------------------------------------------ string helpers

StartsWith(s, p) == Len(s) >= Len(p) /\ SubSeq(s, 1, Len(p)) = p
CharAt(s, i) == SubSeq(s, i, i)
NoWhitespace(s) == \A i \in 1..Len(s) : CharAt(s, i) # " "

HttpsPrefix == "https://"
ImagePrefix == "/static/images/"

\* An https URI: the scheme, then a host of at least one character, and no
\* whitespace anywhere.
ValidHttpsUri(s) ==
    /\ StartsWith(s, HttpsPrefix)
    /\ Len(s) > Len(HttpsPrefix)
    /\ CharAt(s, Len(HttpsPrefix) + 1) \notin {"/", "?", "#", ":", "@", "."}
    /\ NoWhitespace(s)

\* An absolute path of a static image: the directory, then a file name.
ValidImagePath(s) ==
    /\ StartsWith(s, ImagePrefix)
    /\ Len(s) > Len(ImagePrefix)
    /\ NoWhitespace(s)

\* -------------------------------------------------------------- claims

Rendered == {<<c, i>> \in Consumers \X (1..Len(catalog)) : i <= Len(cards[c])}

\* C1: every record of the exported catalog has a title and a description,
\* each a non-empty string.
C1_TitleAndDescriptionNonEmpty ==
    build = "ok" =>
        \A i \in DOMAIN catalog :
            /\ Has(catalog[i], "title") /\ Len(catalog[i].title) > 0
            /\ Has(catalog[i], "description") /\ Len(catalog[i].description) > 0

C1_Witness ==
    /\ build = "ok"
    /\ Len(catalog) = 3
    /\ \A c \in Consumers : pc[c] = "idle"

\* C2: reading the catalog returns the list as it is and changes nothing: no
\* step of a read or of a consumer changes the catalog (its length, its order
\* or a field of a record) once it is created.
C2_CatalogNeverMutated ==
    [][build = "ok" =>
          /\ catalog' = catalog
          /\ \A c \in Consumers :
                (pc[c] = "idle" /\ pc'[c] # "idle") => view'[c] = catalog]_vars

C2_Witness ==
    /\ \A c \in Consumers : pc[c] = "done" /\ Len(cards[c]) = Len(catalog)
    /\ catalog = source
    /\ Len(catalog) = 3

\* C3: rendering preserves the order of the list: the card at position i is
\* the card of record i, a finished render has one card per record, and the
\* shipped list renders as Engausa Academy, Sultan Film Factory, Drf-Logto.
C3_RenderPreservesOrder ==
    \A c \in Consumers :
        /\ Len(cards[c]) <= Len(catalog)
        /\ \A i \in 1..Len(cards[c]) : cards[c][i] = Card(catalog[i])
        /\ pc[c] = "done" =>
              /\ Len(cards[c]) = Len(catalog)
              /\ [i \in 1..Len(cards[c]) |-> cards[c][i].title]
                    = <<"Engausa Academy", "Sultan Film Factory", "Drf-Logto">>

C3_Witness ==
    \E c \in Consumers :
        /\ pc[c] = "done"
        /\ Len(cards[c]) = 3
        /\ cards[c][3].title = "Drf-Logto"

\* C4: a card is a hyperlink exactly when its record has an href, and then
\* its target is that href; without an href the card is plain content.
C4_LinkIffHref ==
    \A r \in Rendered :
        LET rec == catalog[r[2]]
            card == cards[r[1]][r[2]]
        IN  /\ card.link.kind = "a" <=> Has(rec, "href")
            /\ Has(rec, "href") => card.link.target = rec.href
            /\ ~Has(rec, "href") =>
                  card.link.kind = "plain" /\ DOMAIN card.link = {"kind"}

C4_Witness ==
    \E c \in Consumers :
        /\ Len(cards[c]) = 2
        /\ Has(catalog[1], "href") /\ cards[c][1].link.kind = "a"
        /\ ~Has(catalog[2], "href") /\ cards[c][2].link.kind = "plain"

\* C5: a card shows the placeholder exactly when its record has no imgSrc;
\* with an imgSrc it shows an image whose source is that path.
C5_PlaceholderIffNoImage ==
    \A r \in Rendered :
        LET rec == catalog[r[2]]
            card == cards[r[1]][r[2]]
        IN  /\ card.image.kind = "placeholder" <=> ~Has(rec, "imgSrc")
            /\ Has(rec, "imgSrc") =>
                  card.image.kind = "img" /\ card.image.src = rec.imgSrc

C5_Witness ==
    \E c \in Consumers :
        /\ Len(cards[c]) = 2
        /\ ~Has(catalog[1], "imgSrc") /\ cards[c][1].image.kind = "placeholder"
        /\ Has(catalog[2], "imgSrc") /\ cards[c][2].image.kind = "img"

MissingRequired(lit) == ~(RequiredFields \subseteq DOMAIN lit)

\* C7: no two records of the catalog at different positions have the same
\* title.
C7_TitlesUnique ==
    build = "ok" =>
        \A i, j \in DOMAIN catalog :
            i # j => catalog[i].title # catalog[j].title

C7_Witness ==
    /\ build = "ok"
    /\ Len(catalog) = 3
    /\ \E c \in Consumers : pc[c] = "rendering" /\ Len(view[c]) = 3

\* C8: a list with a record that lacks title or description fails the build
\* and none of it is ever rendered; a list whose records lack at most href or
\* imgSrc is accepted.
C8_MissingRequiredRejected ==
    /\ build # "pending" =>
          (build = "failed" <=> \E i \in DOMAIN source : MissingRequired(source[i]))
    /\ (\E i \in DOMAIN source : MissingRequired(source[i])) =>
          /\ catalog = <<>>
          /\ \A c \in Consumers : pc[c] = "idle" /\ cards[c] = <<>>
    /\ build = "ok" => catalog = source

C8_Witness ==
    /\ build = "failed"
    /\ Len(source) = 2
    /\ ~MissingRequired(source[1]) /\ DOMAIN source[1] = RequiredFields
    /\ ~Has(source[2], "description") /\ Has(source[2], "title")

\* C9: every href of the catalog is a valid URI (https:// and a host) and
\* every imgSrc a valid path (absolute, under /static/images/).
C9_HrefAndImgSrcValid ==
    build = "ok" =>
        \A i \in DOMAIN catalog :
            /\ Has(catalog[i], "href") => ValidHttpsUri(catalog[i].href)
            /\ Has(catalog[i], "imgSrc") => ValidImagePath(catalog[i].imgSrc)

C9_Witness ==
    /\ build = "ok"
    /\ \E i \in DOMAIN catalog : Has(catalog[i], "href") /\ Has(catalog[i], "imgSrc")
    /\ \E c \in Consumers : Len(cards[c]) = 1

\* C10: every record of the shipped catalog defines href and imgSrc, so every
\* rendered card is a hyperlink to its href with its own image: no card is
\* plain and none shows the placeholder.
C10_ShippedAlwaysLinkedWithImage ==
    /\ build = "ok" =>
          \A i \in DOMAIN catalog : Has(catalog[i], "href") /\ Has(catalog[i], "imgSrc")
    /\ \A r \in Rendered :
          LET rec == catalog[r[2]]
              card == cards[r[1]][r[2]]
          IN  /\ card.link.kind = "a" /\ card.link.target = rec.href
              /\ card.image.kind = "img" /\ card.image.src = rec.imgSrc

C10_Witness ==
    /\ \A c \in Consumers : Len(cards[c]) = 3
    /\ \E c \in Consumers : cards[c][2].link.target
          = "https://play.google.com/store/apps/details?id=com.sultanfilmfactory.mobile"

====
